---- MODULE Spec2Model ----
(***************************************************************************)
(* XMODEM engine of lib/xmodem/src/lib.rs: the sender session              *)
(* (transmit_with_progress), the receiver session (receive_with_progress)  *)
(* and the packet primitives read_packet / write_packet, over a duplex     *)
(* byte channel modelled as two FIFO byte queues.                          *)
(*                                                                         *)
(* A step of a session is the code between two blocking channel reads: a   *)
(* read blocks until the queue holds the bytes it asks for, writes never   *)
(* block.  Hard I/O errors of the channel are not modelled.                *)
(***************************************************************************)
EXTENDS Integers, Sequences, FiniteSets, TLC

\* ---------------------------------------------------------------- constants
SOH == 1
EOT == 4
ACK == 6
NAK == 21
CAN == 24

\* size of the packet array, `[0u8; 128]`
PacketSize == 128
\* `for _ in 0..10`
MaxAttempts == 10
\* u8 arithmetic
Byte == 256

\* ------------------------------------------------------------------- bounds
\* sender against a scripted peer: every source length 0..MaxLenTx
MaxLenTx == 130
\* NAKs the scripted peer may answer to data frames in one run
MaxNaks == 11
\* the same, in the run whose source is long enough for the sequence to wrap
MaxNaksSeq == 1
\* loopback: sources of up to MaxPackets full packets (plus a remainder)
MaxPackets == 24
\* receiver against a scripted peer: frames the peer gets accepted in one run
MaxRxFrames == 2
\* faulty loopback: frames the channel may corrupt in one run
MaxFaults == 10
\* faulty loopback: sources of up to MaxLossyPackets full packets
MaxLossyPackets == 1
\* the same, in the run whose source is MaxPackets packets long
MaxFaultsSeq == 1
\* StackVec: slices of up to MaxCap elements
MaxCap == 3
\* direct calls of write_packet, or of read_packet, in one run
MaxCalls == 2

\* ------------------------------------------------------------------ helpers
Min(a, b) == IF a < b THEN a ELSE b

\* ceil(a / b)
CeilDiv(a, b) == (a + b - 1) \div b

\* u8::wrapping_add
wrapping_add(a, b) == (a + b) % Byte

\* buf.iter().fold(a, |a, b| a.wrapping_add(*b)) over buf[lo..hi], left to
\* right; the fold is cut into runs of FoldRun bytes to keep the recursion
\* shallow, the order of the additions is the code's
FoldRun == PacketSize \div 8

RECURSIVE FoldRange(_, _, _, _)
FoldRange(a, buf, lo, hi) ==
    IF lo > hi THEN a
    ELSE wrapping_add(FoldRange(a, buf, lo, hi - 1), buf[hi])

RECURSIVE FoldSum(_, _, _)
FoldSum(a, buf, lo) ==
    IF lo > Len(buf) THEN a
    ELSE LET hi == Min(lo + FoldRun - 1, Len(buf))
             b == FoldRange(a, buf, lo, hi) IN
         IF b < Byte THEN FoldSum(b, buf, hi + 1) ELSE b

\* fn get_checksum(buf: &[u8]) -> u8
get_checksum(buf) == FoldSum(0, buf, 1)

\* results of io::Result<usize>
NoRes == [tag |-> "None", val |-> 0, err |-> ""]
Ok(n) == [tag |-> "Ok", val |-> n, err |-> ""]
Err(kind) == [tag |-> "Err", val |-> 0, err |-> kind]

Zeroes == [i \in 1..PacketSize |-> 0]

\* Xmodem::new_with_progress
new_with_progress == [packet |-> 1, started |-> FALSE]

\* ------------------------------------------------------------------- source
\* The byte source handed to transmit: srcLen bytes, of one of two contents.
\* Pattern 1 is all CAN bytes (payload bytes are never control bytes to the
\* protocol); pattern 2 is a non-zero ramp whose sums overflow a byte.
Pats == {1, 2}
SrcByte(pat, i) == IF pat = 1 THEN CAN ELSE ((i * 37) % 255) + 1

\* ReadExt::read_max: fills buf from the source until buf is full or the
\* source is at its end; returns the number of bytes read.
read_max_n(len, pos) == Min(PacketSize, len - pos)
read_max_buf(pat, len, pos, buf) ==
    [i \in 1..PacketSize |->
        IF i <= read_max_n(len, pos) THEN SrcByte(pat, pos + i) ELSE buf[i]]

\* (variant) the rest of the packet is left as it was
ZeroPad_none(buf, n) == buf

\* packet[n..].iter_mut().for_each(|b| *b = 0)
ZeroPad(buf, n) == [i \in 1..PacketSize |-> IF i <= n THEN buf[i] ELSE 0]

\* the frame write_packet puts on the wire for a non-empty buf
Frame(seq, buf) == <<SOH, seq, 255 - seq>> \o buf \o <<get_checksum(buf)>>

\* The zero-padded source, as a sequence of srcLen rounded up to PacketSize
Padded(pat, len) ==
    [i \in 1..(PacketSize * CeilDiv(len, PacketSize)) |->
        IF i <= len THEN SrcByte(pat, i) ELSE 0]

VARIABLES
    mode,         \* "tx": sender against a scripted peer; "rx": receiver
                  \* against a scripted peer; "loop": sender and receiver
    src,          \* [len, pat]: the source given to transmit
    transmitter,  \* the sender's Xmodem: [packet, started]
    txf,          \* locals of transmit_with_progress:
                  \*   [pc, i, n, packet, pos, written, res]
    receiver,     \* the receiver's Xmodem: [packet, started]
    rxf,          \* locals of receive_with_progress / read_packet:
                  \*   [pc, i, packet, pkt_num, received, res]
    sink,         \* bytes written to `into`
    s2r,          \* channel bytes in flight, sender to receiver
    r2s,          \* channel bytes in flight, receiver to sender
    obs,          \* observations of the run (history, not program state)
    vec           \* a StackVec and the result of the last call on it:
                  \*   [storage, len, op, res, val]

vars == <<mode, src, transmitter, txf, receiver, rxf, sink, s2r, r2s, obs, vec>>


\* ------------------------------------------------------------- observations
Obs0 ==
    [ txOut |-> 0,         \* bytes the sender has written to the channel
      txReads |-> 0,       \* bytes the sender has read from the channel
      txFirst |-> -1,      \* the first byte the sender read (-1: none yet)
      txFrames |-> 0,      \* data frames the sender has written
      txEots |-> 0,        \* EOT bytes the sender has written
      txAcked |-> 0,       \* data frames the sender saw acknowledged
      txLast |-> <<>>,     \* the last data frame the sender wrote
      txHooks |-> 0,       \* calls of the sender's progress hook
      txHookArg |-> -1,    \* the argument of the last of them (-1: none yet)
      txCan |-> FALSE,     \* the sender read CAN where abort_on_can was set
      rxIn |-> <<>>,       \* bytes consumed by the current read_packet call
      rxEntry |-> 1,       \* receiver.packet when that call began
      rxWrote |-> <<>>,    \* bytes written by that call
      rxCall |-> NoRes,    \* its result (NoRes while it runs)
      rxSink |-> 0,        \* Len(sink) when that call began
      rxAcked |-> 0,       \* frames the receiver acknowledged
      rxHooks |-> 0,       \* calls of the receiver's progress hook
      rxHookArg |-> -1,    \* the argument of the last of them (-1: none yet)
      rxHooks0 |-> 0,      \* rxHooks when the current read_packet call began
      naks |-> 0,          \* NAKs the scripted peer answered to data frames
      naksHere |-> 0,      \* those it answered since its last ACK of a frame
      ackedAt |-> 0,       \* txFrames when it last answered ACK to a frame
      badRun |-> 0,        \* frames with only a bad checksum the scripted
                           \* peer sent since the last good frame it sent
      absorbed |-> 0,      \* badRun when it last sent a good frame
      coop |-> TRUE,       \* the scripted peer has followed the protocol
      faults |-> 0,        \* frames the channel has corrupted
      fresh |-> FALSE,     \* the last frame written is still as written
      txEv |-> <<>>,       \* the sender's channel events, in order, since it
                           \* began to end the transmission or, for a direct
                           \* call of write_packet, since the call began
      txEntry |-> [started |-> FALSE, frames |-> 0, packet |-> 1],
                           \* started, txFrames and the sequence number when
                           \* a direct call of write_packet began
      rxEv |-> <<>>,       \* the channel events, in order, of the current
                           \* read_packet call
      rxBegin |-> <<>>,    \* the receiver's first channel event
      calls |-> 0,         \* direct calls of write_packet or read_packet
      hdrFault |-> FALSE,  \* the channel has garbled a header byte
      faultSeq |-> -1,     \* the sequence byte of the frame whose checksum
                           \* the channel garbled last (-1: none yet)
      faultRun |-> 0,      \* checksum faults in a row on frames of that
                           \* sequence byte
      faultWorst |-> 0 ]   \* the longest such run

\* channel events: a byte written, a byte read
W(b) == <<"w", b>>
R(b) == <<"r", b>>
Ws(out) == [i \in 1..Len(out) |-> W(out[i])]
Rs(in) == [i \in 1..Len(in) |-> R(in[i])]

\* ------------------------------------------------------------ byte helpers
\* (variant) abort_on_can is ignored
read_byte_no_abort(b, abort_on_can) == Ok(b)

\* fn read_byte(&mut self, abort_on_can: bool), on the byte b it reads
read_byte(b, abort_on_can) ==
    IF abort_on_can /\ b = CAN THEN Err("ConnectionAborted") ELSE Ok(b)

\* (variant) any byte is taken for the expected one
expect_byte_any(b, byte) == [res |-> Ok(b), out |-> <<>>]

\* fn expect_byte(&mut self, byte: u8, ..), on the byte b it reads:
\* its result and the bytes it writes
expect_byte(b, byte) ==
    LET r == read_byte(b, byte # CAN) IN
    IF r.tag = "Err" THEN [res |-> r, out |-> <<>>]
    ELSE IF b # byte THEN [res |-> Err("InvalidData"), out |-> <<CAN>>]
    ELSE [res |-> Ok(b), out |-> <<>>]

\* (variant) NAK is taken for an acknowledgement as well
write_packet_response_nak_ok(b, buflen) ==
    IF b = CAN THEN Err("ConnectionAborted")
    ELSE IF b \in {NAK, ACK} THEN Ok(buflen)
    ELSE Err("InvalidData")

\* write_packet, data path after the frame is written: the result for the
\* response byte b and a buffer of buflen bytes (lines 281-290)
write_packet_response(b, buflen) ==
    LET r == read_byte(b, TRUE) IN
    IF r.tag = "Err" THEN r
    ELSE IF b = NAK THEN Err("Interrupted")
    ELSE IF b # ACK THEN Err("InvalidData")
    ELSE Ok(buflen)

\* ------------------------------------------------------------------- sender
\* (variant) ACK is taken for the initial NAK as well
handshake_ok_or_ack(initial) == initial \in {NAK, ACK}

\* line 55: the initial byte is the NAK the sender waits for
handshake_ok(initial) == initial = NAK

\* (variant) `for _ in 0..=10`
transmit_retry_inclusive(i) == i + 1 <= MaxAttempts

\* line 80: `for _ in 0..10`, another attempt after attempt i was interrupted
transmit_retry(i) == i + 1 < MaxAttempts

\* (variant) written += packet.len(), which counts the padding
count_written_padded(written, n) == written + PacketSize

\* line 85: written += n
count_written(written, n) == written + n

\* (variant) the classic cycle 1..255, which skips 0
next_packet_skip_zero(packet) == IF packet = 255 THEN 1 ELSE packet + 1

\* lines 248 and 288: self.packet.wrapping_add(1)
next_packet(packet) == wrapping_add(packet, 1)

\* (variant) the hook is given the sequence number of the packet just done
progress_arg_before(before, after) == before

\* lines 249 and 289: (self.progress)(Progress::Packet(self.packet)), called
\* when self.packet has gone from before to after
progress_arg(before, after) == after

TxReturn(r) == [txf EXCEPT !.pc = "done", !.res = r]

\* transmit_with_progress, lines 51-58: the initial handshake
transmit_handshake ==
    /\ txf.pc = "handshake"
    /\ r2s # <<>>
    /\ LET initial == Head(r2s)
           r == read_byte(initial, TRUE) IN
       /\ r2s' = Tail(r2s)
       /\ obs' = [obs EXCEPT !.txReads = @ + 1, !.txFirst = initial,
                             !.txCan = (r.tag = "Err")]
       /\ IF r.tag = "Err"
            THEN txf' = TxReturn(r) /\ UNCHANGED transmitter
          ELSE IF ~handshake_ok(initial)
            THEN txf' = TxReturn(Err("InvalidData")) /\ UNCHANGED transmitter
          ELSE /\ transmitter' = [transmitter EXCEPT !.started = TRUE]
               /\ txf' = [txf EXCEPT !.pc = "chunk", !.packet = Zeroes,
                                     !.written = 0]
    /\ UNCHANGED <<mode, src, vec, receiver, rxf, sink, s2r>>

\* transmit_with_progress, lines 64-77: read the next chunk, pad it; at the
\* end of the source write the first EOT
transmit_chunk ==
    /\ txf.pc = "chunk"
    /\ LET n == read_max_n(src.len, txf.pos)
           buf == ZeroPad(read_max_buf(src.pat, src.len, txf.pos, txf.packet), n) IN
       IF n = 0
         THEN /\ txf' = [txf EXCEPT !.pc = "eot_nak", !.n = n, !.packet = buf]
              /\ s2r' = s2r \o <<EOT>>
              /\ obs' = [obs EXCEPT !.txOut = @ + 1, !.txEots = @ + 1,
                                    !.txEv = <<W(EOT)>>]
         ELSE /\ txf' = [txf EXCEPT !.pc = "write", !.n = n, !.packet = buf,
                                    !.pos = @ + n, !.i = 0]
              /\ UNCHANGED <<s2r, obs>>
    /\ UNCHANGED <<mode, src, vec, transmitter, receiver, rxf, sink, r2s>>

\* write_packet, lines 273-278: the data frame
transmit_write_packet ==
    /\ txf.pc = "write"
    /\ LET frame == Frame(transmitter.packet, txf.packet) IN
       /\ s2r' = s2r \o frame
       /\ obs' = [obs EXCEPT !.txOut = @ + Len(frame), !.txFrames = @ + 1,
                             !.txLast = frame,
                             !.fresh = TRUE]
    /\ txf' = [txf EXCEPT !.pc = "resp"]
    /\ UNCHANGED <<mode, src, vec, transmitter, receiver, rxf, sink, r2s>>

\* write_packet, lines 281-290, and the retry loop of lines 80-91
transmit_response ==
    /\ txf.pc = "resp"
    /\ r2s # <<>>
    /\ LET response == Head(r2s)
           r == write_packet_response(response, Len(txf.packet)) IN
       /\ r2s' = Tail(r2s)
       /\ IF r.tag = "Ok"
            THEN /\ transmitter' = [transmitter EXCEPT
                                      !.packet = next_packet(@)]
                 /\ txf' = [txf EXCEPT !.pc = "chunk",
                                       !.written = count_written(@, txf.n)]
                 /\ obs' = [obs EXCEPT !.txReads = @ + 1, !.txAcked = @ + 1,
                                       !.txHooks = @ + 1,
                                       !.txHookArg =
                                          progress_arg(transmitter.packet,
                                                       next_packet(transmitter.packet))]
          ELSE IF r.err = "Interrupted"
            THEN /\ txf' = IF transmit_retry(txf.i)
                             THEN [txf EXCEPT !.pc = "write", !.i = @ + 1]
                             ELSE [TxReturn(Err("BrokenPipe")) EXCEPT !.i = txf.i + 1]
                 /\ obs' = [obs EXCEPT !.txReads = @ + 1]
                 /\ UNCHANGED transmitter
          ELSE /\ txf' = TxReturn(r)
               /\ obs' = [obs EXCEPT !.txReads = @ + 1,
                                     !.txCan = (r.err = "ConnectionAborted")]
               /\ UNCHANGED transmitter
    /\ UNCHANGED <<mode, src, vec, receiver, rxf, sink, s2r>>

\* transmit_with_progress, lines 73-74: expect NAK, write the second EOT
transmit_eot_nak ==
    /\ txf.pc = "eot_nak"
    /\ r2s # <<>>
    /\ LET e == expect_byte(Head(r2s), NAK) IN
       /\ r2s' = Tail(r2s)
       /\ IF e.res.tag = "Err"
            THEN /\ txf' = TxReturn(e.res)
                 /\ s2r' = s2r \o e.out
                 /\ obs' = [obs EXCEPT !.txReads = @ + 1,
                                       !.txOut = @ + Len(e.out),
                                       !.txCan = (e.res.err = "ConnectionAborted"),
                                       !.txEv = @ \o <<R(Head(r2s))>> \o Ws(e.out)]
            ELSE /\ txf' = [txf EXCEPT !.pc = "eot_ack"]
                 /\ s2r' = s2r \o <<EOT>>
                 /\ obs' = [obs EXCEPT !.txReads = @ + 1, !.txOut = @ + 1,
                                       !.txEots = @ + 1,
                                       !.txEv = @ \o <<R(Head(r2s)), W(EOT)>>]
    /\ UNCHANGED <<mode, src, vec, transmitter, receiver, rxf, sink>>

\* transmit_with_progress, lines 75-76: expect ACK, return Ok(written)
transmit_eot_ack ==
    /\ txf.pc = "eot_ack"
    /\ r2s # <<>>
    /\ LET e == expect_byte(Head(r2s), ACK) IN
       /\ r2s' = Tail(r2s)
       /\ s2r' = s2r \o e.out
       /\ obs' = [obs EXCEPT !.txReads = @ + 1, !.txOut = @ + Len(e.out),
                             !.txCan = (e.res.tag = "Err"
                                          /\ e.res.err = "ConnectionAborted"),
                             !.txEv = @ \o <<R(Head(r2s))>> \o Ws(e.out)]
       /\ txf' = IF e.res.tag = "Err" THEN TxReturn(e.res)
                 ELSE TxReturn(Ok(txf.written))
    /\ UNCHANGED <<mode, src, vec, transmitter, receiver, rxf, sink>>

Transmit ==
    \/ transmit_handshake
    \/ transmit_chunk
    \/ transmit_write_packet
    \/ transmit_response
    \/ transmit_eot_nak
    \/ transmit_eot_ack

\* ------------------------------------------------- write_packet, called directly
\* A caller with an Xmodem of its own calls write_packet, one call after the
\* other, with buffers of its choice: txf.packet is the buffer of the call,
\* txf.res what the last call returned.

\* the buffers the caller passes: empty, short, a packet, long
TxBufLens == {0, 1, PacketSize, PacketSize + 1}
TxBuf(len) == [i \in 1..len |-> SrcByte(2, i)]

\* (variant) the initial NAK is awaited whatever started says
needs_initial_nak_always(started) == TRUE

\* line 260: if !self.started
needs_initial_nak(started) == ~started

WpReturn(r) == [txf EXCEPT !.pc = "wp_idle", !.res = r]

\* write_packet, lines 257-278, up to its first channel read
write_packet_call ==
    /\ mode = "apitx"
    /\ txf.pc = "wp_idle"
    /\ obs.calls < MaxCalls
    /\ \E len \in TxBufLens :
        LET buf == TxBuf(len)
            call == [obs EXCEPT !.calls = @ + 1, !.txEv = <<>>,
                                !.txEntry = [started |-> transmitter.started,
                                             frames |-> obs.txFrames,
                                             packet |-> transmitter.packet]] IN
        IF buf = <<>>
          THEN IF needs_initial_nak(transmitter.started)
                 THEN /\ txf' = [txf EXCEPT !.pc = "wp_initial", !.packet = buf,
                                            !.res = NoRes]
                      /\ obs' = call
                      /\ UNCHANGED s2r
                 ELSE /\ txf' = [txf EXCEPT !.pc = "wp_eot_nak", !.packet = buf,
                                            !.res = NoRes]
                      /\ s2r' = s2r \o <<EOT>>
                      /\ obs' = [call EXCEPT !.txOut = @ + 1, !.txEots = @ + 1,
                                             !.txEv = <<W(EOT)>>]
          ELSE LET frame == Frame(transmitter.packet, buf) IN
               /\ txf' = [txf EXCEPT !.pc = "wp_resp", !.packet = buf,
                                     !.res = NoRes]
               /\ s2r' = s2r \o frame
               /\ obs' = [call EXCEPT !.txOut = @ + Len(frame),
                                      !.txFrames = @ + 1, !.txLast = frame]
    /\ UNCHANGED <<mode, src, vec, transmitter, receiver, rxf, sink, r2s>>

\* write_packet, lines 263-266: the initial NAK, then the first EOT
write_packet_initial ==
    /\ txf.pc = "wp_initial"
    /\ r2s # <<>>
    /\ LET b == Head(r2s)
           e == expect_byte(b, NAK) IN
       /\ r2s' = Tail(r2s)
       /\ IF e.res.tag = "Err"
            THEN /\ txf' = WpReturn(e.res)
                 /\ s2r' = s2r \o e.out
                 /\ obs' = [obs EXCEPT !.txReads = @ + 1,
                                       !.txOut = @ + Len(e.out),
                                       !.txEv = @ \o <<R(b)>> \o Ws(e.out)]
                 /\ UNCHANGED transmitter
            ELSE /\ transmitter' = [transmitter EXCEPT !.started = TRUE]
                 /\ txf' = [txf EXCEPT !.pc = "wp_eot_nak"]
                 /\ s2r' = s2r \o <<EOT>>
                 /\ obs' = [obs EXCEPT !.txReads = @ + 1, !.txOut = @ + 1,
                                       !.txEots = @ + 1,
                                       !.txEv = @ \o <<R(b), W(EOT)>>]
    /\ UNCHANGED <<mode, src, vec, receiver, rxf, sink>>

\* write_packet, lines 267-268: expect NAK, write the second EOT
write_packet_eot_nak ==
    /\ txf.pc = "wp_eot_nak"
    /\ r2s # <<>>
    /\ LET b == Head(r2s)
           e == expect_byte(b, NAK) IN
       /\ r2s' = Tail(r2s)
       /\ IF e.res.tag = "Err"
            THEN /\ txf' = WpReturn(e.res)
                 /\ s2r' = s2r \o e.out
                 /\ obs' = [obs EXCEPT !.txReads = @ + 1,
                                       !.txOut = @ + Len(e.out),
                                       !.txEv = @ \o <<R(b)>> \o Ws(e.out)]
            ELSE /\ txf' = [txf EXCEPT !.pc = "wp_eot_ack"]
                 /\ s2r' = s2r \o <<EOT>>
                 /\ obs' = [obs EXCEPT !.txReads = @ + 1, !.txOut = @ + 1,
                                       !.txEots = @ + 1,
                                       !.txEv = @ \o <<R(b), W(EOT)>>]
    /\ UNCHANGED <<mode, src, vec, transmitter, receiver, rxf, sink>>

\* write_packet, lines 269-270: expect ACK, return Ok(0)
write_packet_eot_ack ==
    /\ txf.pc = "wp_eot_ack"
    /\ r2s # <<>>
    /\ LET b == Head(r2s)
           e == expect_byte(b, ACK) IN
       /\ r2s' = Tail(r2s)
       /\ s2r' = s2r \o e.out
       /\ obs' = [obs EXCEPT !.txReads = @ + 1, !.txOut = @ + Len(e.out),
                             !.txEv = @ \o <<R(b)>> \o Ws(e.out)]
       /\ txf' = IF e.res.tag = "Err" THEN WpReturn(e.res) ELSE WpReturn(Ok(0))
    /\ UNCHANGED <<mode, src, vec, transmitter, receiver, rxf, sink>>

\* write_packet, lines 281-290: the response to the data frame
write_packet_resp ==
    /\ txf.pc = "wp_resp"
    /\ r2s # <<>>
    /\ LET response == Head(r2s)
           r == write_packet_response(response, Len(txf.packet)) IN
       /\ r2s' = Tail(r2s)
       /\ txf' = WpReturn(r)
       /\ IF r.tag = "Ok"
            THEN /\ transmitter' = [transmitter EXCEPT
                                      !.packet = next_packet(@)]
                 /\ obs' = [obs EXCEPT !.txReads = @ + 1, !.txAcked = @ + 1,
                                       !.txHooks = @ + 1,
                                       !.txHookArg =
                                          progress_arg(transmitter.packet,
                                                       next_packet(transmitter.packet))]
            ELSE /\ obs' = [obs EXCEPT !.txReads = @ + 1]
                 /\ UNCHANGED transmitter
    /\ UNCHANGED <<mode, src, vec, receiver, rxf, sink, s2r>>

WritePacket ==
    \/ write_packet_call
    \/ write_packet_initial
    \/ write_packet_eot_nak
    \/ write_packet_eot_ack
    \/ write_packet_resp


\* ----------------------------------------------------------------- receiver
\* read_packet is called by receive (in its retry loop) or, in the runs of
\* mode "apirx", directly by a caller with an Xmodem of its own: then
\* rxf.packet is the buffer of the call and rxf.res what the call returned.
Direct == mode = "apirx"

RxReturn(r) == [rxf EXCEPT !.pc = "done", !.res = r]

\* the buffers a direct caller passes: empty, one byte short, a packet, long
RxBufLens == {0, PacketSize - 1, PacketSize, PacketSize + 1}
RxBuf(len) == [i \in 1..len |-> SrcByte(2, i)]

\* a direct call of read_packet begins
read_packet_call ==
    /\ Direct
    /\ rxf.pc \in {"rp_idle", "done"}
    /\ obs.calls < MaxCalls
    /\ \E len \in RxBufLens :
        rxf' = [rxf EXCEPT !.pc = "first", !.packet = RxBuf(len), !.res = NoRes]
    /\ obs' = [obs EXCEPT !.calls = @ + 1, !.rxCall = NoRes, !.rxIn = <<>>,
                          !.rxWrote = <<>>, !.rxEv = <<>>]
    /\ UNCHANGED <<mode, src, vec, transmitter, txf, receiver, sink, s2r, r2s>>

\* a read_packet call of the receiver ends with result r, having written out
RxCallEnds(r, consumed, out) ==
    [obs EXCEPT !.rxIn = @ \o consumed, !.rxWrote = @ \o out, !.rxCall = r,
                !.rxEv = @ \o Rs(consumed) \o Ws(out)]

\* receive_with_progress, lines 111-115
receive_start ==
    /\ rxf.pc = "start"
    /\ r2s' = r2s \o <<NAK>>
    /\ rxf' = [rxf EXCEPT !.pc = "first", !.i = 0, !.packet = Zeroes,
                          !.received = 0]
    /\ obs' = [obs EXCEPT !.rxBegin = W(NAK)]
    /\ UNCHANGED <<mode, src, vec, transmitter, txf, receiver, sink, s2r>>

\* (variant) every buffer is taken to be large enough
buffer_too_small_never(buf) == FALSE

\* read_packet, lines 209-211: the buffer must hold a packet
buffer_too_small(buf) == Len(buf) < PacketSize

\* read_packet, lines 209-230: the check of the buffer, then the header byte
read_packet_first ==
    /\ rxf.pc = "first"
    /\ IF buffer_too_small(rxf.packet)
         THEN /\ rxf' = RxReturn(Err("UnexpectedEof"))
              /\ obs' = [obs EXCEPT !.rxIn = <<>>, !.rxEntry = receiver.packet,
                                    !.rxWrote = <<>>, !.rxSink = Len(sink),
                                    !.rxCall = Err("UnexpectedEof"),
                                    !.rxEv = <<>>, !.rxHooks0 = obs.rxHooks]
              /\ UNCHANGED <<s2r, r2s>>
         ELSE /\ s2r # <<>>
              /\ LET first == Head(s2r)
                     r == read_byte(first, TRUE)
                     call == [obs EXCEPT !.rxIn = <<first>>, !.rxEntry = receiver.packet,
                                         !.rxWrote = <<>>, !.rxCall = NoRes,
                                         !.rxSink = Len(sink),
                                         !.rxHooks0 = obs.rxHooks,
                                         !.rxEv = <<R(first)>>,
                                         !.rxBegin = IF @ = <<>> THEN R(first) ELSE @] IN
                 /\ s2r' = Tail(s2r)
                 /\ IF r.tag = "Err"
                      THEN /\ rxf' = RxReturn(r)
                           /\ obs' = [call EXCEPT !.rxCall = r]
                           /\ UNCHANGED r2s
                    ELSE IF first = EOT
                      THEN /\ rxf' = [rxf EXCEPT !.pc = "eot2"]
                           /\ r2s' = r2s \o <<NAK>>
                           /\ obs' = [call EXCEPT !.rxWrote = <<NAK>>,
                                                  !.rxEv = @ \o <<W(NAK)>>]
                    ELSE IF first # SOH
                      THEN /\ rxf' = [rxf EXCEPT !.pc = "second"]
                           /\ obs' = call
                           /\ UNCHANGED r2s
                    ELSE /\ rxf' = [rxf EXCEPT !.pc = "num"]
                         /\ obs' = call
                         /\ UNCHANGED r2s
    /\ UNCHANGED <<mode, src, vec, transmitter, txf, receiver, sink>>

\* (variant) every bad header is InvalidData
bad_header_invalid(second) == Err("InvalidData")

\* read_packet, lines 225-229: the error for the byte after a bad header
bad_header(second) ==
    IF second = CAN THEN Err("ConnectionAborted") ELSE Err("InvalidData")

\* (variant) `for _ in 0..=10`
receive_retry_inclusive(i) == i + 1 <= MaxAttempts

\* line 117: `for _ in 0..10`, another attempt after attempt i was interrupted
receive_retry(i) == i + 1 < MaxAttempts

\* read_packet, lines 223-229: the byte after a bad header
read_packet_second ==
    /\ rxf.pc = "second"
    /\ s2r # <<>>
    /\ LET second == Head(s2r)
           r == bad_header(second) IN
       /\ s2r' = Tail(s2r)
       /\ r2s' = r2s \o <<CAN>>
       /\ rxf' = RxReturn(r)
       /\ obs' = RxCallEnds(r, <<second>>, <<CAN>>)
    /\ UNCHANGED <<mode, src, vec, transmitter, txf, receiver, sink>>

\* read_packet, line 232: the packet number
read_packet_num ==
    /\ rxf.pc = "num"
    /\ s2r # <<>>
    /\ LET pkt_num == Head(s2r)
           r == read_byte(pkt_num, TRUE) IN
       /\ s2r' = Tail(s2r)
       /\ IF r.tag = "Err"
            THEN /\ rxf' = RxReturn(r)
                 /\ obs' = RxCallEnds(r, <<pkt_num>>, <<>>)
            ELSE /\ rxf' = [rxf EXCEPT !.pc = "comp", !.pkt_num = pkt_num]
                 /\ obs' = [obs EXCEPT !.rxIn = @ \o <<pkt_num>>,
                                       !.rxEv = @ \o <<R(pkt_num)>>]
    /\ UNCHANGED <<mode, src, vec, transmitter, txf, receiver, sink, r2s>>

\* read_packet, line 234: the check of the packet number and its complement
bad_packet_number(pkt_num, pkt_num_comp, packet) ==
    pkt_num # packet \/ pkt_num_comp # 255 - packet

\* read_packet, lines 233-237: the complement, and the check of both
read_packet_comp ==
    /\ rxf.pc = "comp"
    /\ s2r # <<>>
    /\ LET pkt_num_comp == Head(s2r)
           r == read_byte(pkt_num_comp, TRUE) IN
       /\ s2r' = Tail(s2r)
       /\ IF r.tag = "Err"
            THEN /\ rxf' = RxReturn(r)
                 /\ obs' = RxCallEnds(r, <<pkt_num_comp>>, <<>>)
                 /\ UNCHANGED r2s
          ELSE IF bad_packet_number(rxf.pkt_num, pkt_num_comp, receiver.packet)
            THEN /\ rxf' = RxReturn(Err("InvalidData"))
                 /\ r2s' = r2s \o <<CAN>>
                 /\ obs' = RxCallEnds(Err("InvalidData"), <<pkt_num_comp>>, <<CAN>>)
          ELSE /\ rxf' = [rxf EXCEPT !.pc = "payload"]
               /\ obs' = [obs EXCEPT !.rxIn = @ \o <<pkt_num_comp>>,
                                     !.rxEv = @ \o <<R(pkt_num_comp)>>]
               /\ UNCHANGED r2s
    /\ UNCHANGED <<mode, src, vec, transmitter, txf, receiver, sink>>

\* read_packet, line 239: self.inner.read_exact(buf)
read_packet_payload ==
    /\ rxf.pc = "payload"
    /\ Len(s2r) >= Len(rxf.packet)
    /\ LET n == Len(rxf.packet) IN
       /\ rxf' = [rxf EXCEPT !.pc = "cksum", !.packet = SubSeq(s2r, 1, n)]
       /\ s2r' = SubSeq(s2r, n + 1, Len(s2r))
       /\ obs' = [obs EXCEPT !.rxIn = @ \o SubSeq(s2r, 1, n),
                             !.rxEv = @ \o Rs(SubSeq(s2r, 1, n))]
    /\ UNCHANGED <<mode, src, vec, transmitter, txf, receiver, sink, r2s>>

\* read_packet, lines 240-250, and the retry loop of lines 117-131
read_packet_cksum ==
    /\ rxf.pc = "cksum"
    /\ s2r # <<>>
    /\ LET transmitted == Head(s2r)
           checksum == get_checksum(rxf.packet) IN
       /\ s2r' = Tail(s2r)
       /\ IF checksum # transmitted
            THEN /\ r2s' = r2s \o <<NAK>>
                 /\ rxf' = IF Direct THEN RxReturn(Err("Interrupted"))
                           ELSE IF receive_retry(rxf.i)
                             THEN [rxf EXCEPT !.pc = "first", !.i = @ + 1]
                             ELSE [RxReturn(Err("BrokenPipe")) EXCEPT !.i = rxf.i + 1]
                 /\ obs' = RxCallEnds(Err("Interrupted"), <<transmitted>>, <<NAK>>)
                 /\ UNCHANGED <<receiver, sink>>
            ELSE /\ r2s' = r2s \o <<ACK>>
                 /\ receiver' = [receiver EXCEPT !.packet = next_packet(@)]
                 /\ rxf' = IF Direct THEN RxReturn(Ok(PacketSize))
                           ELSE [rxf EXCEPT !.pc = "first", !.i = 0,
                                            !.received = @ + PacketSize]
                 /\ sink' = IF Direct THEN sink ELSE sink \o rxf.packet
                 /\ obs' = [RxCallEnds(Ok(PacketSize), <<transmitted>>, <<ACK>>)
                              EXCEPT !.rxAcked = @ + 1,
                                     !.rxHooks = @ + 1,
                                     !.rxHookArg =
                                        progress_arg(receiver.packet,
                                                     next_packet(receiver.packet))]
    /\ UNCHANGED <<mode, src, vec, transmitter, txf>>

\* read_packet, lines 217-219: the second EOT; read_packet returns Ok(0), on
\* which receive returns Ok(received)
read_packet_eot2 ==
    /\ rxf.pc = "eot2"
    /\ s2r # <<>>
    /\ LET b == Head(s2r)
           e == expect_byte(b, EOT) IN
       /\ s2r' = Tail(s2r)
       /\ IF e.res.tag = "Err"
            THEN /\ r2s' = r2s \o e.out
                 /\ rxf' = RxReturn(e.res)
                 /\ obs' = RxCallEnds(e.res, <<b>>, e.out)
            ELSE /\ r2s' = r2s \o <<ACK>>
                 /\ rxf' = RxReturn(Ok(IF Direct THEN 0 ELSE rxf.received))
                 /\ obs' = RxCallEnds(Ok(0), <<b>>, <<ACK>>)
    /\ UNCHANGED <<mode, src, vec, transmitter, txf, receiver, sink>>

ReadPacket ==
    \/ read_packet_first
    \/ read_packet_second
    \/ read_packet_num
    \/ read_packet_comp
    \/ read_packet_payload
    \/ read_packet_cksum
    \/ read_packet_eot2

Receive ==
    \/ receive_start
    \/ read_packet_first
    \/ read_packet_second
    \/ read_packet_num
    \/ read_packet_comp
    \/ read_packet_payload
    \/ read_packet_cksum
    \/ read_packet_eot2

\* ------------------------------------------------- scripted peer of a sender
\* the sender is blocked in a channel read
TxWaits ==
    txf.pc \in {"handshake", "resp", "eot_nak", "eot_ack",
                "wp_initial", "wp_eot_nak", "wp_eot_ack", "wp_resp"}

\* the byte a receiver that accepts everything sends at this point
CoopByte ==
    IF txf.pc \in {"handshake", "eot_nak", "wp_initial", "wp_eot_nak"}
      THEN NAK ELSE ACK

PeerBytes == {ACK, NAK, CAN, EOT}

NakBudget == IF mode = "seq" THEN MaxNaksSeq ELSE MaxNaks

\* The peer takes what the sender wrote off the channel and answers one byte.
PeerRespond ==
    /\ mode \in {"tx", "seq", "apitx"}
    /\ TxWaits
    /\ r2s = <<>>
    /\ \E b \in PeerBytes :
        /\ (txf.pc = "resp" /\ b = NAK) => obs.naks < NakBudget
        /\ r2s' = <<b>>
        /\ obs' = [obs EXCEPT
                     !.coop = @ /\ b = CoopByte,
                     !.naks = IF txf.pc = "resp" /\ b = NAK THEN @ + 1 ELSE @,
                     !.naksHere = IF txf.pc # "resp" THEN @
                                  ELSE IF b = NAK THEN @ + 1
                                  ELSE IF b = ACK THEN 0 ELSE @,
                     !.ackedAt = IF txf.pc = "resp" /\ b = ACK
                                   THEN obs.txFrames ELSE @]
    /\ s2r' = <<>>
    /\ UNCHANGED <<mode, src, vec, transmitter, txf, receiver, rxf, sink>>

\* ----------------------------------------------- scripted peer of a receiver
\* payloads the peer sends: all CAN bytes, and a ramp
PeerPayload(pat) == [i \in 1..PacketSize |-> SrcByte(pat, i)]

\* the frames the peer may send to a receiver that expects sequence s: the
\* right or a wrong sequence byte, the right or a wrong complement, a right
\* or a wrong checksum
PeerFrames(s) ==
    { <<SOH, q, c>> \o PeerPayload(pat) \o <<wrapping_add(get_checksum(PeerPayload(pat)), d)>> :
        q \in {s, wrapping_add(s, 4), CAN},
        c \in {255 - s, 255 - wrapping_add(s, 4), CAN},
        pat \in Pats,
        d \in {0, 1} }

\* m is a whole frame with the header, sequence s and its complement
FrameFor(m, s) ==
    /\ Len(m) = PacketSize + 4
    /\ m[1] = SOH /\ m[2] = s /\ m[3] = 255 - s
Payload(m) == SubSeq(m, 4, PacketSize + 3)
GoodFrame(m, s) ==
    FrameFor(m, s) /\ m[PacketSize + 4] = get_checksum(Payload(m))
OnlyBadChecksum(m, s) ==
    FrameFor(m, s) /\ m[PacketSize + 4] # get_checksum(Payload(m))

\* what the peer may send when the receiver waits for the byte at rxf.pc
PeerMessages ==
    IF rxf.pc = "first"
      THEN (IF obs.rxAcked < MaxRxFrames THEN PeerFrames(receiver.packet) ELSE {})
           \cup {<<EOT>>, <<CAN>>, <<ACK>>}
      ELSE {<<EOT>>, <<CAN>>, <<ACK>>}

RxWaits == rxf.pc \in {"first", "second", "num", "comp", "payload", "cksum", "eot2"}

\* The peer takes the receiver's answers off the channel and sends a message.
PeerSend ==
    /\ mode \in {"rx", "apirx"}
    /\ RxWaits
    /\ s2r = <<>>
    /\ \E m \in PeerMessages :
        /\ s2r' = m
        /\ obs' = [obs EXCEPT
                     !.badRun = IF OnlyBadChecksum(m, receiver.packet) THEN @ + 1
                                ELSE IF GoodFrame(m, receiver.packet) THEN 0
                                ELSE @,
                     !.absorbed = IF GoodFrame(m, receiver.packet)
                                    THEN obs.badRun ELSE @]
    /\ r2s' = <<>>
    /\ UNCHANGED <<mode, src, vec, transmitter, txf, receiver, rxf, sink>>

\* ------------------------------------------------------------ faulty channel
\* The channel garbles one byte of the data frame at its head before the
\* receiver has read any of it: the checksum byte, or the header byte.  No
\* frame is garbled twice.
FaultBudget == IF mode = "lossyseq" THEN MaxFaultsSeq ELSE MaxFaults

\* a checksum fault on a frame of sequence byte q, as the channel counts them
ChecksumFault(q) ==
    LET run == IF obs.faultSeq = q THEN obs.faultRun + 1 ELSE 1 IN
    [obs EXCEPT !.faults = @ + 1, !.fresh = FALSE, !.faultSeq = q,
                !.faultRun = run,
                !.faultWorst = IF run > @ THEN run ELSE @]

Corrupt ==
    /\ mode \in {"lossy", "lossyseq"}
    /\ obs.faults < FaultBudget
    /\ obs.fresh
    /\ rxf.pc = "first"
    /\ Len(s2r) >= PacketSize + 4
    /\ Head(s2r) = SOH
    /\ \/ /\ s2r' = [s2r EXCEPT ![PacketSize + 4] = wrapping_add(@, 1)]
          /\ obs' = ChecksumFault(s2r[2])
       \/ /\ s2r' = [s2r EXCEPT ![1] = ACK]
          /\ obs' = [obs EXCEPT !.faults = @ + 1, !.fresh = FALSE,
                                !.hdrFault = TRUE]
    /\ UNCHANGED <<mode, src, vec, transmitter, txf, receiver, rxf, sink, r2s>>

\* ------------------------------------------------------------------ StackVec
\* stack-vec/src/lib.rs: a vector in a borrowed slice.  A StackVec is
\* [storage, len]; storage is the whole slice, of which the first len
\* elements are the vector's.  The elements are plain values (a T for which
\* dropping does nothing).
Elems == {1, 2, 3}

\* StackVec::new
new(storage) == [storage |-> storage, len |-> 0]

\* StackVec::with_len; it panics if len > storage.len()
with_len_panics(storage, len) == ~(len <= Len(storage))
with_len(storage, len) == [storage |-> storage, len |-> len]

\* StackVec::capacity
capacity(v) == Len(v.storage)

\* StackVec::as_slice
as_slice(v) == SubSeq(v.storage, 1, v.len)

\* (variant) the vector is never taken for full
is_full_never(v) == FALSE

\* StackVec::is_full
is_full(v) == v.len = Len(v.storage)

\* StackVec::truncate
truncate(v, len) == IF len < v.len THEN [v EXCEPT !.len = len] ELSE v

\* StackVec::push: the vector after the call, and the result
push(v, value) ==
    IF is_full(v) THEN [v |-> v, res |-> "Err"]
    ELSE [v |-> [storage |-> [i \in 1..Len(v.storage) |->
                                 IF i = v.len + 1 THEN value ELSE v.storage[i]],
                 len |-> v.len + 1],
          res |-> "Ok"]

\* StackVec::pop: the vector after the call, the result and the value
pop(v) ==
    IF v.len = 0 THEN [v |-> v, res |-> "None", val |-> 0]
    ELSE [v |-> [v EXCEPT !.len = @ - 1], res |-> "Some",
          val |-> v.storage[v.len]]

\* no StackVec
NoVec == [v |-> new(<<>>), op |-> "none", res |-> "", val |-> 0]

Others == <<mode, src, transmitter, txf, receiver, rxf, sink, s2r, r2s, obs>>

\* a caller pushes a value
vec_push ==
    /\ mode = "vec"
    /\ \E value \in Elems :
        LET r == push(vec.v, value) IN
        vec' = [v |-> r.v, op |-> "push", res |-> r.res, val |-> value]
    /\ UNCHANGED Others

\* a caller pops
vec_pop ==
    /\ mode = "vec"
    /\ LET r == pop(vec.v) IN
       vec' = [v |-> r.v, op |-> "pop", res |-> r.res, val |-> r.val]
    /\ UNCHANGED Others

\* a caller truncates to some length, also to more than the capacity
vec_truncate ==
    /\ mode = "vec"
    /\ \E len \in 0..(capacity(vec.v) + 1) :
        vec' = [v |-> truncate(vec.v, len), op |-> "truncate", res |-> "",
                val |-> len]
    /\ UNCHANGED Others

StackVecOps == vec_push \/ vec_pop \/ vec_truncate

\* ------------------------------------------------------------ specifications
TxLocals0 ==
    [pc |-> "handshake", i |-> 0, n |-> 0, packet |-> Zeroes, pos |-> 0,
     written |-> 0, res |-> NoRes]
RxLocals0 ==
    [pc |-> "start", i |-> 0, packet |-> Zeroes, pkt_num |-> 0,
     received |-> 0, res |-> NoRes]
Off(locals) == [locals EXCEPT !.pc = "off"]

\* sources of the runs against a scripted peer: every length up to MaxLenTx.
\* The sender never looks at the bytes it sends, so one content (the ramp)
\* is enough.
TxSources == [len : 0..MaxLenTx, pat : {2}]

\* one source long enough for the sequence number to wrap
WrapLen == Byte * PacketSize + 1

\* sources of the loopback runs: up to MaxPackets full packets and a rest
Rests == {0, 1, PacketSize - 1}
LoopSources ==
    [len : {k * PacketSize + r : k \in 0..MaxPackets, r \in Rests}, pat : Pats]

InitWith(m, sources, t, r) ==
    /\ mode = m
    /\ src \in sources
    /\ transmitter = new_with_progress
    /\ txf = t
    /\ receiver = new_with_progress
    /\ rxf = r
    /\ sink = <<>>
    /\ s2r = <<>>
    /\ r2s = <<>>
    /\ obs = Obs0
    /\ vec = NoVec

\* transmit against a scripted peer
InitTx == InitWith("tx", TxSources, TxLocals0, Off(RxLocals0))
NextTx == Transmit \/ PeerRespond
SpecTx == InitTx /\ [][NextTx]_vars

\* the same with the long source
InitSeq == InitWith("seq", [len : {WrapLen}, pat : {2}], TxLocals0, Off(RxLocals0))

\* receive against a scripted peer
InitRx == InitWith("rx", [len : {0}, pat : {2}], Off(TxLocals0), RxLocals0)
NextRx == Receive \/ PeerSend
SpecRx == InitRx /\ [][NextRx]_vars

\* transmit and receive connected by a reliable duplex channel
InitLoop == InitWith("loop", LoopSources, TxLocals0, RxLocals0)

\* transmit and receive connected by a channel that corrupts frames
LossySources ==
    [len : {k * PacketSize + r : k \in 0..MaxLossyPackets, r \in Rests}, pat : Pats]
InitLossy == InitWith("lossy", LossySources, TxLocals0, RxLocals0)

\* the same with a source of MaxPackets packets
InitLossySeq ==
    InitWith("lossyseq", [len : {MaxPackets * PacketSize}, pat : {2}],
             TxLocals0, RxLocals0)

NextLoop == Transmit \/ Receive \/ Corrupt
SpecLoop == (InitLoop \/ InitLossy \/ InitLossySeq) /\ [][NextLoop]_vars

\* the runs in which sequence numbers get furthest: the long source against a
\* scripted peer, and the loopback runs
NextSeq == Transmit \/ Receive \/ PeerRespond \/ Corrupt
SpecSeq == (InitSeq \/ InitLoop \/ InitLossy) /\ [][NextSeq]_vars

\* write_packet called directly, against a scripted peer
InitApiTx ==
    InitWith("apitx", [len : {0}, pat : {2}],
             [TxLocals0 EXCEPT !.pc = "wp_idle", !.packet = <<>>], Off(RxLocals0))
SpecWp == InitApiTx /\ [][WritePacket \/ PeerRespond]_vars

\* read_packet called directly, against a scripted peer
InitApiRx ==
    InitWith("apirx", [len : {0}, pat : {2}], Off(TxLocals0),
             [RxLocals0 EXCEPT !.pc = "rp_idle", !.packet = <<>>])
SpecRp == InitApiRx /\ [][read_packet_call \/ ReadPacket \/ PeerSend]_vars

\* the runs in which a sender ends a transmission: transmit, and write_packet
\* called directly, each against a scripted peer
SpecEot == (InitTx \/ InitApiTx) /\ [][Transmit \/ WritePacket \/ PeerRespond]_vars

\* a StackVec over a slice of up to MaxCap elements, made by new or by a
\* with_len that does not panic, and then used
Storages == UNION {[1..c -> Elems] : c \in 0..MaxCap}
InitVec ==
    /\ mode = "vec"
    /\ src = [len |-> 0, pat |-> 2]
    /\ transmitter = new_with_progress
    /\ txf = Off(TxLocals0)
    /\ receiver = new_with_progress
    /\ rxf = Off(RxLocals0)
    /\ sink = <<>>
    /\ s2r = <<>>
    /\ r2s = <<>>
    /\ obs = Obs0
    /\ \E storage \in Storages :
         \/ vec = [v |-> new(storage), op |-> "new", res |-> "", val |-> 0]
         \/ \E len \in 0..(MaxCap + 1) :
              /\ ~with_len_panics(storage, len)
              /\ vec = [v |-> with_len(storage, len), op |-> "with_len",
                        res |-> "", val |-> len]
SpecVec == InitVec /\ [][StackVecOps]_vars

\* every run
Init ==
    \/ InitTx \/ InitSeq \/ InitRx \/ InitLoop \/ InitLossy \/ InitLossySeq
    \/ InitApiTx \/ InitApiRx \/ InitVec
Next ==
    \/ Transmit \/ WritePacket \/ Receive \/ read_packet_call
    \/ PeerRespond \/ PeerSend \/ Corrupt \/ StackVecOps
Spec == Init /\ [][Next]_vars

\* =================================================================== claims

\* what a read_packet call of the receiver was fed: the bytes it consumed and
\* the bytes that were behind them on the channel
RxWire == obs.rxIn \o s2r

\* a read_packet call of the receiver has returned
RxCallOver == obs.rxCall.tag # "None"

\* ------------------------------------------------------------------------ C1
\* C1 (as claimed): over a reliable loopback channel neither call fails, the
\* sender returns Ok(L), the receiver returns Ok(128 * ceil(L / 128)) and the
\* sink then holds the L source bytes followed by zero padding.
C1_RoundTrip ==
    mode = "loop" =>
        /\ txf.res.tag # "Err"
        /\ rxf.res.tag # "Err"
        /\ txf.pc = "done" => txf.res = Ok(src.len)
        /\ rxf.pc = "done" =>
             /\ rxf.res = Ok(PacketSize * CeilDiv(src.len, PacketSize))
             /\ sink = Padded(src.pat, src.len)

\* ------------------------------------------------------------------------ C2
\* C2: against a peer that sends the initial NAK, answers ACK to every data
\* frame and NAK then ACK to the two EOTs, transmit never fails, has written
\* one data frame per chunk read so far, and once it has returned it has
\* returned Ok(L) after exactly ceil(L / 128) data frames and two EOTs (no
\* data frame at all when L = 0).
C2_CoopTransmit ==
    obs.coop =>
        /\ txf.res.tag # "Err"
        /\ obs.txFrames <= CeilDiv(src.len, PacketSize)
        /\ txf.pc \in {"eot_nak", "eot_ack", "done"} =>
             obs.txFrames = CeilDiv(src.len, PacketSize)
        /\ txf.pc = "done" =>
             /\ txf.res = Ok(src.len)
             /\ obs.txEots = 2
             /\ obs.txOut = (PacketSize + 4) * CeilDiv(src.len, PacketSize) + 2

C2_Witness ==
    /\ obs.coop
    /\ txf.pc = "done"
    /\ src.len = PacketSize + 1
    /\ txf.res = Ok(PacketSize + 1)
    /\ obs.txFrames = 2

\* ------------------------------------------------------------------------ C3
\* C3 (as claimed): a read_packet call that was fed the frame write_packet
\* makes for the sequence number the call expected and some payload accepts
\* it: it answers ACK, returns Ok(128), and its buffer holds the payload.
C3_FrameRoundTrip ==
    (/\ RxCallOver
     /\ Len(RxWire) >= PacketSize + 4
     /\ SubSeq(RxWire, 1, PacketSize + 4)
          = Frame(obs.rxEntry, SubSeq(RxWire, 4, PacketSize + 3)))
    => /\ obs.rxCall = Ok(PacketSize)
       /\ obs.rxWrote = <<ACK>>
       /\ rxf.packet = SubSeq(RxWire, 4, PacketSize + 3)

\* ------------------------------------------------------------------------ C4
\* C4: on either side the sequence number is (1 + k) mod 256 where k is the
\* number of packets acknowledged on that session so far (it starts at 1,
\* moves only with an acknowledgement, and follows 255 with 0).
C4_Sequence ==
    /\ transmitter.packet = (1 + obs.txAcked) % 256
    /\ receiver.packet = (1 + obs.rxAcked) % 256

C4_Witness ==
    /\ obs.txAcked = 255
    /\ transmitter.packet = 0
    /\ obs.naks = 1

\* ------------------------------------------------------------------------ C5
\* C5: the sender's attempt counter equals the number of NAKs the peer has
\* answered since it last acknowledged a frame; transmit fails with BrokenPipe
\* exactly when that number reaches 10, having then written 10 frames for the
\* packet and nothing but data frames on the whole run (no EOT); with 9 NAKs
\* or fewer it goes on, and after an ACK the bytes returned so far are the
\* source bytes read so far.
C5_SenderRetry ==
    /\ (txf.res = Err("BrokenPipe")) =>
          /\ obs.naksHere = MaxAttempts
          /\ obs.txFrames - obs.ackedAt = MaxAttempts
          /\ obs.txEots = 0
          /\ obs.txOut = (PacketSize + 4) * obs.txFrames
    /\ (obs.naksHere = MaxAttempts /\ r2s = <<>>) => txf.res = Err("BrokenPipe")
    /\ (r2s = <<>> /\ txf.pc \in {"write", "resp"}) => txf.i = obs.naksHere
    /\ (r2s = <<>> /\ txf.pc = "resp") => obs.txFrames - obs.ackedAt = txf.i + 1
    /\ txf.pc = "chunk" => txf.written = txf.pos
    /\ txf.pc \in {"write", "resp"} => txf.written = txf.pos - txf.n

C5_Witness ==
    /\ txf.res = Err("BrokenPipe")
    /\ obs.txAcked = 1
    /\ obs.naks = MaxAttempts + 1

C7_SequenceCheck ==
    (/\ RxCallOver
     /\ Len(RxWire) >= 3
     /\ RxWire[1] = SOH
     /\ RxWire[2] # obs.rxEntry \/ RxWire[3] # 255 - obs.rxEntry)
    => /\ obs.rxCall = Err("InvalidData")
       /\ obs.rxWrote = <<CAN>>
       /\ receiver.packet = obs.rxEntry
       /\ Len(sink) = obs.rxSink

\* ------------------------------------------------------------------------ C8
\* the outcome the claim gives for a bad header: one more byte read, CAN
\* written, ConnectionAborted if that byte is CAN and InvalidData otherwise
BadHeaderOutcome ==
    /\ Len(obs.rxIn) = 2
    /\ obs.rxWrote = <<CAN>>
    /\ obs.rxCall = IF obs.rxIn[2] = CAN THEN Err("ConnectionAborted")
                    ELSE Err("InvalidData")

\* C8 (as claimed): a read_packet call whose first byte is neither SOH nor
\* EOT reads exactly one further byte, writes CAN, and fails with
\* ConnectionAborted if that byte is CAN and with InvalidData otherwise.
C8_BadHeader_Claimed ==
    (RxCallOver /\ obs.rxIn # <<>> /\ obs.rxIn[1] \notin {SOH, EOT}) => BadHeaderOutcome

\* C8 (amended): the same for a first byte that is none of SOH, EOT and CAN;
\* a first byte CAN makes read_packet fail with ConnectionAborted at once,
\* with no further byte read and nothing written.
C8_BadHeader ==
    /\ (RxCallOver /\ obs.rxIn # <<>> /\ obs.rxIn[1] \notin {SOH, EOT, CAN}) => BadHeaderOutcome
    /\ (RxCallOver /\ obs.rxIn # <<>> /\ obs.rxIn[1] = CAN) =>
          /\ obs.rxIn = <<CAN>>
          /\ obs.rxWrote = <<>>
          /\ obs.rxCall = Err("ConnectionAborted")

C8_Witness ==
    /\ RxCallOver
    /\ obs.rxIn = <<ACK, CAN>>
    /\ obs.rxCall = Err("ConnectionAborted")
    /\ r2s = <<CAN>>

\* ------------------------------------------------------------------------ C9
\* C9: the step in which transmit reads CAN (as the initial byte, as the
\* answer to a data frame, or as the answer to either EOT) ends it with
\* ConnectionAborted and writes nothing; and once transmit has returned it
\* writes nothing and attempts nothing more.
C9_CanShortCircuit ==
    [][ /\ (TxWaits /\ r2s # <<>> /\ Head(r2s) = CAN /\ txf' # txf) =>
              /\ txf'.pc = "done"
              /\ txf'.res = Err("ConnectionAborted")
              /\ s2r' = s2r
              /\ obs'.txOut = obs.txOut
              /\ obs'.txFrames = obs.txFrames
        /\ txf.pc = "done" =>
              /\ txf' = txf
              /\ obs'.txOut = obs.txOut ]_vars

C9_Witness ==
    /\ txf.res = Err("ConnectionAborted")
    /\ obs.naksHere = 1
    /\ obs.txFrames = 2
    /\ obs.txOut = 2 * (PacketSize + 4)

\* ----------------------------------------------------------------------- C10
\* C10 (as claimed): transmit writes nothing before it has read a byte; if
\* the first byte is NAK it goes on, and any other first byte makes it fail
\* with InvalidData, with no second read and nothing written.
C10_Handshake_Claimed ==
    /\ obs.txReads = 0 => obs.txOut = 0
    /\ (obs.txFirst = NAK /\ obs.txReads = 1) =>
          /\ transmitter.started
          /\ txf.pc \in {"chunk", "write", "resp", "eot_nak"}
    /\ obs.txFirst \notin {-1, NAK} =>
          /\ txf.pc = "done"
          /\ txf.res = Err("InvalidData")
          /\ obs.txReads = 1
          /\ obs.txOut = 0

\* C10 (amended): as claimed for a first byte other than NAK and CAN; a
\* first byte CAN makes transmit fail with ConnectionAborted instead, also
\* with no second read and nothing written.
C10_Handshake ==
    /\ obs.txReads = 0 => obs.txOut = 0
    /\ (obs.txFirst = NAK /\ obs.txReads = 1) =>
          /\ transmitter.started
          /\ txf.pc \in {"chunk", "write", "resp", "eot_nak"}
    /\ obs.txFirst \notin {-1, NAK} =>
          /\ txf.pc = "done"
          /\ txf.res = IF obs.txFirst = CAN THEN Err("ConnectionAborted")
                       ELSE Err("InvalidData")
          /\ obs.txReads = 1
          /\ obs.txOut = 0

C10_Witness ==
    /\ obs.txFirst = EOT
    /\ txf.res = Err("InvalidData")
    /\ obs.txOut = 0

\* ----------------------------------------------------------------------- C11
\* the end of a transmission as the sender's channel events
EotEvents == <<W(EOT), R(NAK), W(EOT), R(ACK)>>

\* a direct call of write_packet with an empty buffer has begun
EmptyCall == mode = "apitx" /\ obs.calls > 0 /\ txf.packet = <<>>

\* C11: transmit writes no EOT before the source is exhausted; from then on
\* its channel events are write EOT, read NAK, write EOT, read ACK in this
\* order, and it returns Ok exactly when all four have happened.  A call of
\* write_packet with an empty buffer returns Ok(0) exactly after the same
\* four events, preceded by the read of one NAK if and only if started was
\* false when the call began; it writes no data frame and keeps the sequence
\* number, and started is true once that NAK or the first EOT has passed.
C11_EndOfTransmission ==
    /\ mode = "tx" =>
          /\ txf.pc \in {"handshake", "chunk", "write", "resp"} =>
                obs.txEv = <<>> /\ obs.txEots = 0
          /\ obs.txEv # <<>> => txf.pos = src.len /\ txf.n = 0
          /\ txf.pc = "eot_nak" => obs.txEv = SubSeq(EotEvents, 1, 1)
          /\ txf.pc = "eot_ack" => obs.txEv = SubSeq(EotEvents, 1, 3)
          /\ txf.res.tag = "Ok" <=> obs.txEv = EotEvents
          /\ txf.res.tag = "Ok" => obs.txEots = 2
    /\ EmptyCall =>
          LET pre == IF obs.txEntry.started THEN <<>> ELSE <<R(NAK)>> IN
          /\ txf.pc = "wp_initial" => obs.txEv = <<>> /\ ~obs.txEntry.started
          /\ txf.pc = "wp_eot_nak" => obs.txEv = pre \o SubSeq(EotEvents, 1, 1)
          /\ txf.pc = "wp_eot_ack" => obs.txEv = pre \o SubSeq(EotEvents, 1, 3)
          /\ txf.pc = "wp_idle" =>
                (txf.res = Ok(0) <=> obs.txEv = pre \o EotEvents)
          /\ txf.res.tag = "Ok" => txf.res = Ok(0)
          /\ obs.txFrames = obs.txEntry.frames
          /\ transmitter.packet = obs.txEntry.packet
          /\ transmitter.started <=>
                (obs.txEntry.started \/ (obs.txEv # <<>> /\ obs.txEv[1] = R(NAK)))

C11_Witness ==
    /\ EmptyCall
    /\ obs.calls = 2
    /\ obs.txEntry.started
    /\ obs.txEntry.packet = 1
    /\ txf.res = Ok(0)
    /\ obs.txEots = 4
    /\ obs.txReads = 5

\* ----------------------------------------------------------------------- C12
\* C12: the first channel event of receive is its write of NAK, before any
\* read; receive returns Ok exactly when the events of its last read_packet
\* call are read EOT, write NAK, read EOT, write ACK in this order (the EOT
\* being the first byte of the slot), and then it returns the bytes received;
\* whenever it has returned otherwise it has returned an error.
C12_ReceiverTermination ==
    mode = "rx" =>
        /\ rxf.pc = "start" => obs.rxBegin = <<>> /\ r2s = <<>> /\ obs.rxEv = <<>>
        /\ rxf.pc # "start" => obs.rxBegin = W(NAK)
        /\ rxf.pc = "eot2" => obs.rxEv = <<R(EOT), W(NAK)>>
        /\ rxf.res.tag = "Ok" <=>
              (rxf.pc = "done"
                 /\ obs.rxEv = <<R(EOT), W(NAK), R(EOT), W(ACK)>>)
        /\ rxf.res.tag = "Ok" =>
              /\ rxf.res = Ok(PacketSize * obs.rxAcked)
              /\ Len(sink) = PacketSize * obs.rxAcked
        /\ rxf.pc = "done" => rxf.res.tag \in {"Ok", "Err"}

C12_Witness ==
    /\ mode = "rx"
    /\ rxf.pc = "done"
    /\ rxf.res = Ok(2 * PacketSize)
    /\ obs.rxEv = <<R(EOT), W(NAK), R(EOT), W(ACK)>>

\* ----------------------------------------------------------------------- C13
\* C13 (as claimed): the data frame a call of write_packet with a non-empty
\* buffer has written is 132 bytes long: SOH, the sequence number the call
\* began with, its complement, 128 payload bytes and the sum of these 128
\* bytes modulo 256, whatever the length of the buffer.
C13_WireFrame ==
    (mode = "apitx" /\ obs.calls > 0 /\ txf.packet # <<>>) =>
        /\ Len(obs.txLast) = PacketSize + 4
        /\ obs.txLast[1] = SOH
        /\ obs.txLast[2] = obs.txEntry.packet
        /\ obs.txLast[3] = 255 - obs.txEntry.packet
        /\ obs.txLast[PacketSize + 4]
             = FoldSum(0, SubSeq(obs.txLast, 4, PacketSize + 3), 1)

\* ----------------------------------------------------------------------- C14
\* C14: the payload of every data frame transmit writes is the next 128 bytes
\* of the source, or, at the end of a source whose length L is not a multiple
\* of 128, the remaining L mod 128 bytes followed by zero bytes (nothing of
\* the chunk before); and a transmit that returns Ok returns L, the padding
\* not counted.
C14_ZeroPadding ==
    mode = "tx" =>
        /\ txf.pc = "resp" =>
              /\ Len(obs.txLast) = PacketSize + 4
              /\ \A i \in 1..PacketSize :
                    obs.txLast[3 + i] =
                      IF PacketSize * obs.txAcked + i <= src.len
                        THEN SrcByte(src.pat, PacketSize * obs.txAcked + i)
                        ELSE 0
        /\ txf.res.tag = "Ok" => txf.res.val = src.len

C14_Witness ==
    /\ mode = "tx"
    /\ src.len = PacketSize + 2
    /\ txf.pc = "resp"
    /\ obs.txAcked = 1
    /\ obs.txLast[4] = SrcByte(src.pat, PacketSize + 1)
    /\ obs.txLast[5] = SrcByte(src.pat, PacketSize + 2)
    /\ obs.txLast[6] = 0
    /\ obs.txLast[PacketSize + 3] = 0

\* ----------------------------------------------------------------------- C15
\* C15 (as claimed): with transmit and receive connected by a channel that
\* garbles nothing but checksums of data frames, and no packet's frames 10
\* times in a row, neither call fails, the sink is at every moment a prefix
\* of the zero-padded source, and once the calls have returned the sender
\* has returned Ok(L) and the sink holds the whole zero-padded source.
C15_CorruptionTolerance ==
    (/\ mode \in {"loop", "lossy", "lossyseq"}
     /\ ~obs.hdrFault
     /\ obs.faultWorst < MaxAttempts)
    => /\ txf.res.tag # "Err"
       /\ rxf.res.tag # "Err"
       /\ Len(sink) <= PacketSize * CeilDiv(src.len, PacketSize)
       /\ sink = SubSeq(Padded(src.pat, src.len), 1, Len(sink))
       /\ txf.pc = "done" => txf.res = Ok(src.len)
       /\ rxf.pc = "done" =>
            /\ rxf.res = Ok(PacketSize * CeilDiv(src.len, PacketSize))
            /\ sink = Padded(src.pat, src.len)

\* ----------------------------------------------------------------------- C16
\* C16: a direct call of read_packet with a buffer of fewer than 128 bytes
\* returns the UnexpectedEof error in its first step, and that step reads
\* and writes nothing: the channel (with whatever bytes wait on it), the
\* expected sequence number, the buffer and the sink are as before; the call
\* has no channel event at all.
C16_BufferTooSmall ==
    /\ []((Direct /\ RxCallOver /\ Len(rxf.packet) < PacketSize) =>
            /\ rxf.res = Err("UnexpectedEof")
            /\ obs.rxCall = Err("UnexpectedEof")
            /\ obs.rxEv = <<>>
            /\ obs.rxIn = <<>>
            /\ obs.rxWrote = <<>>)
    /\ [][(Direct /\ rxf.pc = "first" /\ Len(rxf.packet) < PacketSize
             /\ rxf' # rxf) =>
            /\ rxf'.pc = "done"
            /\ rxf'.res = Err("UnexpectedEof")
            /\ rxf'.packet = rxf.packet
            /\ s2r' = s2r
            /\ r2s' = r2s
            /\ receiver' = receiver
            /\ sink' = sink ]_vars

C16_Witness ==
    /\ Direct
    /\ obs.calls = 2
    /\ rxf.res = Err("UnexpectedEof")
    /\ Len(rxf.packet) = PacketSize - 1
    /\ receiver.packet = 2
    /\ Len(s2r) = PacketSize + 4

\* ----------------------------------------------------------------------- C17
\* C17: a StackVec made by new or with_len and then used by push, pop and
\* truncate always has len() <= capacity(), and no call changes capacity();
\* a push on a full vector returns Err and leaves the vector as it was, a
\* push on a vector that is not full returns Ok, adds the value at the end
\* and makes the length one more.
C17_StackVec ==
    /\ [](vec.v.len <= Len(vec.v.storage))
    /\ [][ /\ Len(vec'.v.storage) = Len(vec.v.storage)
           /\ vec'.op = "push" =>
                IF vec.v.len = Len(vec.v.storage)
                  THEN /\ vec'.res = "Err"
                       /\ vec'.v = vec.v
                  ELSE /\ vec'.res = "Ok"
                       /\ vec'.v.len = vec.v.len + 1
                       /\ SubSeq(vec'.v.storage, 1, vec'.v.len)
                            = Append(SubSeq(vec.v.storage, 1, vec.v.len), vec'.val) ]_vars

C17_Witness ==
    /\ vec.op = "push"
    /\ vec.res = "Err"
    /\ vec.v.len = MaxCap
    /\ vec.v.storage = <<3, 2, 1>>

\* ----------------------------------------------------------------------- C18
\* C18 (as claimed): a direct call of read_packet with a buffer of 128 bytes
\* or more that was fed a frame with the header, the expected sequence
\* number, its complement, 128 payload bytes and their checksum has consumed
\* exactly that frame (132 bytes), answered ACK and returned Ok(128).
C18_PayloadLength ==
    (/\ Direct
     /\ RxCallOver
     /\ Len(rxf.packet) >= PacketSize
     /\ Len(RxWire) >= PacketSize + 4
     /\ GoodFrame(SubSeq(RxWire, 1, PacketSize + 4), obs.rxEntry))
    => /\ Len(obs.rxIn) = PacketSize + 4
       /\ obs.rxCall = Ok(PacketSize)
       /\ obs.rxWrote = <<ACK>>

\* ----------------------------------------------------------------------- C19
\* C19 (as claimed): a read_packet call that was fed a frame with the header,
\* the expected sequence number and its complement but a checksum byte other
\* than the sum of the 128 payload bytes has answered NAK and nothing else,
\* has returned Interrupted, has kept the expected sequence number and has
\* not called the progress hook; the sink and the byte total of receive are
\* as they were when the call began.
C19_ChecksumRejection ==
    (/\ RxCallOver
     /\ Len(rxf.packet) = PacketSize
     /\ Len(RxWire) >= PacketSize + 4
     /\ OnlyBadChecksum(SubSeq(RxWire, 1, PacketSize + 4), obs.rxEntry))
    => /\ obs.rxCall = Err("Interrupted")
       /\ obs.rxWrote = <<NAK>>
       /\ receiver.packet = obs.rxEntry
       /\ obs.rxHooks = obs.rxHooks0
       /\ Len(sink) = obs.rxSink
       /\ ~Direct => rxf.received = obs.rxSink

\* ----------------------------------------------------------------------- C20
\* C20: the step in which transmit reads NAK as the answer to a data frame
\* changes neither the sequence number, the byte total, the packet nor the
\* place in the source; the frame transmit writes after a NAK is the frame
\* it wrote before, byte for byte; and the source is never read more than
\* one chunk ahead of the acknowledged packets.
C20_Retransmission ==
    /\ [](mode = "tx" =>
            /\ txf.pos <= PacketSize * (obs.txAcked + 1)
            /\ txf.pc = "chunk" => txf.pos <= PacketSize * obs.txAcked)
    /\ [][ /\ (mode = "tx" /\ txf.pc = "resp" /\ r2s # <<>> /\ Head(r2s) = NAK
                 /\ txf' # txf) =>
                /\ transmitter' = transmitter
                /\ txf'.written = txf.written
                /\ txf'.packet = txf.packet
                /\ txf'.pos = txf.pos
                /\ txf'.pc \in {"write", "done"}
           /\ (mode = "tx" /\ txf.pc = "write" /\ txf.i > 0 /\ txf' # txf) =>
                /\ obs'.txFrames = obs.txFrames + 1
                /\ obs'.txLast = obs.txLast
                /\ s2r' = s2r \o obs.txLast ]_vars

C20_Witness ==
    /\ mode = "tx"
    /\ src.len = PacketSize + 2
    /\ txf.pc = "resp"
    /\ txf.i = 2
    /\ obs.txAcked = 1
    /\ obs.txFrames = 4
    /\ obs.txLast[2] = 2
    /\ transmitter.packet = 2

\* ----------------------------------------------------------------------- C21
\* C21: a step of transmit calls the progress hook exactly when it reads ACK
\* as the answer to a data frame, and a step of receive exactly when it
\* answers ACK to a data frame; the call is one call, made with the sequence
\* number already advanced by one (modulo 256).  No other step calls it: not
\* one that reads or writes NAK, not one that fails, not the initial
\* handshake, not the EOT handshake.  A transmit that has returned Ok has
\* called it once per packet of the source, and receive once per packet in
\* the sink.
C21_ProgressHook ==
    /\ [](/\ txf.res.tag = "Ok" => obs.txHooks = CeilDiv(src.len, PacketSize)
          /\ obs.rxHooks * PacketSize = Len(sink)
          /\ obs.txHooks = 0 <=> obs.txHookArg = -1
          /\ obs.rxHooks = 0 <=> obs.rxHookArg = -1)
    /\ [][ /\ IF txf' # txf /\ txf.pc = "resp" /\ Head(r2s) = ACK
                THEN /\ obs'.txHooks = obs.txHooks + 1
                     /\ transmitter'.packet = (transmitter.packet + 1) % Byte
                     /\ obs'.txHookArg = transmitter'.packet
                ELSE /\ obs'.txHooks = obs.txHooks
                     /\ obs'.txHookArg = obs.txHookArg
           /\ IF rxf' # rxf /\ rxf.pc = "cksum" /\ r2s' = r2s \o <<ACK>>
                THEN /\ obs'.rxHooks = obs.rxHooks + 1
                     /\ receiver'.packet = (receiver.packet + 1) % Byte
                     /\ obs'.rxHookArg = receiver'.packet
                ELSE /\ obs'.rxHooks = obs.rxHooks
                     /\ obs'.rxHookArg = obs.rxHookArg ]_vars

C21_Witness ==
    /\ mode = "seq"
    /\ obs.txHooks = Byte - 1
    /\ obs.txHookArg = 0
    /\ obs.naks = 1
    /\ txf.pc = "chunk"

\* ----------------------------------------------------------------------- C22
\* a side that has not returned and can take no step: it is blocked in a
\* channel read for bytes that are not there
TxBlocked == TxWaits /\ r2s = <<>>
RxBlocked ==
    /\ RxWaits
    /\ IF rxf.pc = "first" THEN ~buffer_too_small(rxf.packet) /\ s2r = <<>>
       ELSE IF rxf.pc = "payload" THEN Len(s2r) < Len(rxf.packet)
       ELSE s2r = <<>>

\* C22 (as claimed): with transmit and receive connected by a reliable
\* channel, when one side has returned an error the other side is not left
\* blocked in a channel read (it has returned or can still take a step), and
\* the two sides are never both blocked in a channel read at once.
C22_NoOrphanedPeer ==
    mode = "loop" =>
        /\ rxf.res.tag = "Err" => ~TxBlocked
        /\ txf.res.tag = "Err" => ~RxBlocked
        /\ ~(TxBlocked /\ RxBlocked)

====
